---- MODULE Spec2Model ----
(***************************************************************************)
(* The document ingestion lifecycle of the mini-rag frontend: the upload   *)
(* widget (DocumentUploader.tsx), its polling loop, the transport wrapper  *)
(* (api.ts) and the part of App.tsx that mounts and unmounts the widget.   *)
(*                                                                         *)
(* JavaScript strings are sequences of one-character strings, so that      *)
(* startsWith, includes, replace, endsWith and the progress regular        *)
(* expression are computed character by character as the code does.        *)
(* A nullable value is the empty set (null) or a singleton set.            *)
(* The progress fraction is kept in hundredths: 0.1 is 10, 1 is 100.       *)
(***************************************************************************)
EXTENDS Integers, Sequences, FiniteSets, TLC

\* ------------------------------------------------------------ bounds
\* retryCount is tracked exactly up to RetryCap and kept there beyond it: the
\* code only ever compares it with MAX_RETRIES < RetryCap and with 0.
RetryCap == 32
\* file selections followed per run
MaxSessions == 2
\* health requests SystemMonitor has pending at a time
MaxHealthInFlight == 2

\* ------------------------------------------------------------ nullable values
Null == {}
Some(x) == {x}
Val(o) == CHOOSE x \in o : TRUE

\* ------------------------------------------------------------ strings
StartsWith(s, p) == Len(s) >= Len(p) /\ SubSeq(s, 1, Len(p)) = p
EndsWith(s, p) == Len(s) >= Len(p) /\ SubSeq(s, Len(s) - Len(p) + 1, Len(s)) = p
OccursAt(s, p, i) == i >= 1 /\ i + Len(p) - 1 <= Len(s) /\ SubSeq(s, i, i + Len(p) - 1) = p
Includes(s, p) == \E i \in 1..(Len(s) + 1) : OccursAt(s, p, i)
IndexOf(s, p) == CHOOSE i \in 1..(Len(s) + 1) : OccursAt(s, p, i) /\ \A j \in 1..(i - 1) : ~OccursAt(s, p, j)
\* String.prototype.replace with a string pattern: the first occurrence only
ReplaceFirst(s, p, r) ==
    IF Includes(s, p)
    THEN LET i == IndexOf(s, p) IN SubSeq(s, 1, i - 1) \o r \o SubSeq(s, i + Len(p), Len(s))
    ELSE s
\* UpperLetters is the text "ABCDEFGHIJKLMNOPQRSTUVWXYZ"
UpperLetters == <<"A", "B", "C", "D", "E", "F", "G", "H", "I", "J", "K", "L", "M", "N", "O", "P", "Q", "R", "S", "T", "U", "V", "W", "X", "Y", "Z">>
\* LowerLetters is the text "abcdefghijklmnopqrstuvwxyz"
LowerLetters == <<"a", "b", "c", "d", "e", "f", "g", "h", "i", "j", "k", "l", "m", "n", "o", "p", "q", "r", "s", "t", "u", "v", "w", "x", "y", "z">>
LowerChar(c) ==
    IF \E i \in 1..26 : UpperLetters[i] = c
    THEN LowerLetters[CHOOSE i \in 1..26 : UpperLetters[i] = c]
    ELSE c
ToLowerCase(s) == [i \in 1..Len(s) |-> LowerChar(s[i])]
\* Digits is the text "0123456789"
Digits == <<"0", "1", "2", "3", "4", "5", "6", "7", "8", "9">>
IsDigit(c) == \E i \in 1..10 : Digits[i] = c
DigitVal(c) == (CHOOSE i \in 1..10 : Digits[i] = c) - 1
RECURSIVE ParseInt(_)
\* parseInt(ds, 10) of a non-empty run of decimal digits
ParseInt(ds) == IF Len(ds) = 0 THEN 0 ELSE 10 * ParseInt(SubSeq(ds, 1, Len(ds) - 1)) + DigitVal(ds[Len(ds)])
RECURSIVE NumberToString(_)
\* the decimal text of a non-negative integer, as a template literal prints it
NumberToString(n) == IF n < 10 THEN <<Digits[n + 1]>> ELSE NumberToString(n \div 10) \o <<Digits[(n % 10) + 1]>>

\* ------------------------------------------------------------ DocumentUploader.tsx constants
MAX_RETRIES == 30
RETRY_INTERVAL == 2000
MAX_FILE_SIZE == 10 * 1024 * 1024
\* FILE_TOO_LARGE is the text "File size exceeds 10MB limit"
FILE_TOO_LARGE == <<"F", "i", "l", "e", " ", "s", "i", "z", "e", " ", "e", "x", "c", "e", "e", "d", "s", " ", "1", "0", "M", "B", " ", "l", "i", "m", "i", "t">>
\* INVALID_TYPE is the text "Please upload a PDF file"
INVALID_TYPE == <<"P", "l", "e", "a", "s", "e", " ", "u", "p", "l", "o", "a", "d", " ", "a", " ", "P", "D", "F", " ", "f", "i", "l", "e">>
\* CORRUPTED_PDF is the text "The PDF file appears to be corrupted"
CORRUPTED_PDF == <<"T", "h", "e", " ", "P", "D", "F", " ", "f", "i", "l", "e", " ", "a", "p", "p", "e", "a", "r", "s", " ", "t", "o", " ", "b", "e", " ", "c", "o", "r", "r", "u", "p", "t", "e", "d">>
\* EMPTY_PDF is the text "No text content could be extracted from the PDF"
EMPTY_PDF == <<"N", "o", " ", "t", "e", "x", "t", " ", "c", "o", "n", "t", "e", "n", "t", " ", "c", "o", "u", "l", "d", " ", "b", "e", " ", "e", "x", "t", "r", "a", "c", "t", "e", "d", " ", "f", "r", "o", "m", " ", "t", "h", "e", " ", "P", "D", "F">>
\* PROCESSING_FAILED is the text "Failed to process document"
PROCESSING_FAILED == <<"F", "a", "i", "l", "e", "d", " ", "t", "o", " ", "p", "r", "o", "c", "e", "s", "s", " ", "d", "o", "c", "u", "m", "e", "n", "t">>
\* PROCESSING_TIMEOUT is the text "Processing timed out"
PROCESSING_TIMEOUT == <<"P", "r", "o", "c", "e", "s", "s", "i", "n", "g", " ", "t", "i", "m", "e", "d", " ", "o", "u", "t">>
\* CONNECTION_ERROR is the text "Connection error. Please check your internet connection"
CONNECTION_ERROR == <<"C", "o", "n", "n", "e", "c", "t", "i", "o", "n", " ", "e", "r", "r", "o", "r", ".", " ", "P", "l", "e", "a", "s", "e", " ", "c", "h", "e", "c", "k", " ", "y", "o", "u", "r", " ", "i", "n", "t", "e", "r", "n", "e", "t", " ", "c", "o", "n", "n", "e", "c", "t", "i", "o", "n">>
\* UNKNOWN_ERROR is the text "Unknown error"
UNKNOWN_ERROR == <<"U", "n", "k", "n", "o", "w", "n", " ", "e", "r", "r", "o", "r">>
\* VALIDATING_TEXT is the text "Validating document..."
VALIDATING_TEXT == <<"V", "a", "l", "i", "d", "a", "t", "i", "n", "g", " ", "d", "o", "c", "u", "m", "e", "n", "t", ".", ".", ".">>
\* UPLOADING_TEXT is the text "Uploading document..."
UPLOADING_TEXT == <<"U", "p", "l", "o", "a", "d", "i", "n", "g", " ", "d", "o", "c", "u", "m", "e", "n", "t", ".", ".", ".">>
\* COMPLETED is the text "completed"
COMPLETED == <<"c", "o", "m", "p", "l", "e", "t", "e", "d">>
\* ERROR_WORD is the text "error"
ERROR_WORD == <<"e", "r", "r", "o", "r">>
\* ERROR_PREFIX is the text "error: "
ERROR_PREFIX == <<"e", "r", "r", "o", "r", ":", " ">>
\* PROCESSING_PREFIX is the text "processing: "
PROCESSING_PREFIX == <<"p", "r", "o", "c", "e", "s", "s", "i", "n", "g", ":", " ">>
\* CORRUPTED_WORD is the text "corrupted"
CORRUPTED_WORD == <<"c", "o", "r", "r", "u", "p", "t", "e", "d">>
\* NO_TEXT_CONTENT is the text "no text content"
NO_TEXT_CONTENT == <<"n", "o", " ", "t", "e", "x", "t", " ", "c", "o", "n", "t", "e", "n", "t">>
\* NETWORK_WORD is the text "network"
NETWORK_WORD == <<"n", "e", "t", "w", "o", "r", "k">>
\* PDF_EXTENSION is the text ".pdf"
PDF_EXTENSION == <<".", "p", "d", "f">>
EMPTY == <<>>
\* a string used as a condition: null, undefined and '' are falsy
Truthy(o) == o # Null /\ Val(o) # EMPTY

\* ------------------------------------------------------------ api.ts
\* API_REQUEST_FAILED is the text "API request failed: "
API_REQUEST_FAILED == <<"A", "P", "I", " ", "r", "e", "q", "u", "e", "s", "t", " ", "f", "a", "i", "l", "e", "d", ":", " ">>
\* HTTP_ERROR_STATUS is the text "HTTP error! status: "
HTTP_ERROR_STATUS == <<"H", "T", "T", "P", " ", "e", "r", "r", "o", "r", "!", " ", "s", "t", "a", "t", "u", "s", ":", " ">>
\* the message of the TypeError a rejected fetch carries
\* FAILED_TO_FETCH is the text "Failed to fetch"
FAILED_TO_FETCH == <<"F", "a", "i", "l", "e", "d", " ", "t", "o", " ", "f", "e", "t", "c", "h">>
\* the message of the SyntaxError response.json() raises on a body that is not JSON
\* JSON_SYNTAX_ERROR is the text "Unexpected end of JSON input"
JSON_SYNTAX_ERROR == <<"U", "n", "e", "x", "p", "e", "c", "t", "e", "d", " ", "e", "n", "d", " ", "o", "f", " ", "J", "S", "O", "N", " ", "i", "n", "p", "u", "t">>
\* the message of the TypeError raised by destructuring or reading a field of null
\* NULL_TYPE_ERROR is the text "Cannot read properties of null"
NULL_TYPE_ERROR == <<"C", "a", "n", "n", "o", "t", " ", "r", "e", "a", "d", " ", "p", "r", "o", "p", "e", "r", "t", "i", "e", "s", " ", "o", "f", " ", "n", "u", "l", "l">>

\* A response body: JSON with the fields a handler reads, or not JSON at all.
JsonBody(error, detail, status, document_id) ==
    [json |-> TRUE, error |-> error, detail |-> detail, status |-> status, document_id |-> document_id]
NotJsonBody == [json |-> FALSE, error |-> Null, detail |-> Null, status |-> Null, document_id |-> Null]
\* What fetch() produces: a response with a status code and a body, or a rejection.
HttpResponse(code, body) == [rejected |-> FALSE, code |-> code, body |-> body]
FetchRejected == [rejected |-> TRUE, code |-> 0, body |-> NotJsonBody]

\* new Error(message): api.ts attaches no response object to the errors it throws
ErrorOf(message) == [message |-> Some(message), response |-> Null]
Threw(message) == [threw |-> TRUE, error |-> ErrorOf(message), value |-> Null]
Returned(value) == [threw |-> FALSE, error |-> ErrorOf(EMPTY), value |-> value]

ResponseOk(resp) == resp.code >= 200 /\ resp.code <= 299
HttpErrorTextDetailFirst(resp) ==
    LET errorData == IF resp.body.json THEN Some(resp.body) ELSE Null
    IN  IF errorData # Null /\ Truthy(Val(errorData).detail) THEN Val(Val(errorData).detail)
        ELSE IF errorData # Null /\ Truthy(Val(errorData).error) THEN Val(Val(errorData).error)
        ELSE HTTP_ERROR_STATUS \o NumberToString(resp.code)
\* errorData?.error || errorData?.detail || `HTTP error! status: ${response.status}`
HttpErrorText(resp) ==
    LET errorData == IF resp.body.json THEN Some(resp.body) ELSE Null
    IN  IF errorData # Null /\ Truthy(Val(errorData).error) THEN Val(Val(errorData).error)
        ELSE IF errorData # Null /\ Truthy(Val(errorData).detail) THEN Val(Val(errorData).detail)
        ELSE HTTP_ERROR_STATUS \o NumberToString(resp.code)
fetchWithErrorHandlingDecodesAll(resp) ==
    IF resp.rejected THEN Threw(API_REQUEST_FAILED \o FAILED_TO_FETCH)
    ELSE IF ~ResponseOk(resp) THEN Threw(API_REQUEST_FAILED \o HttpErrorText(resp))
    ELSE IF ~resp.body.json THEN Threw(API_REQUEST_FAILED \o JSON_SYNTAX_ERROR)
    ELSE Returned(Some(resp.body))
\* fetchWithErrorHandling: every Error raised inside is rethrown with the prefix
fetchWithErrorHandling(resp) ==
    IF resp.rejected THEN Threw(API_REQUEST_FAILED \o FAILED_TO_FETCH)
    ELSE IF ~ResponseOk(resp) THEN Threw(API_REQUEST_FAILED \o HttpErrorText(resp))
    ELSE IF resp.code = 204 THEN Returned(Null)
    ELSE IF ~resp.body.json THEN Threw(API_REQUEST_FAILED \o JSON_SYNTAX_ERROR)
    ELSE Returned(Some(resp.body))

\* ---- request headers
\* APPLICATION_JSON is the text "application/json"
APPLICATION_JSON == <<"a", "p", "p", "l", "i", "c", "a", "t", "i", "o", "n", "/", "j", "s", "o", "n">>
\* a headers object: the three headers the code sets, null where it sets none
Headers(accept, contentType, apiKey) ==
    [Accept |-> accept, ContentType |-> contentType, XApiKey |-> apiKey]
NoHeaders == Headers(Null, Null, Null)
\* { ...a, ...b }
Spread(a, b) ==
    Headers(IF b.Accept # Null THEN b.Accept ELSE a.Accept,
            IF b.ContentType # Null THEN b.ContentType ELSE a.ContentType,
            IF b.XApiKey # Null THEN b.XApiKey ELSE a.XApiKey)
getHeadersWithoutKey(cfg, contentType) ==
    Headers(Some(APPLICATION_JSON), IF Truthy(contentType) THEN contentType ELSE Null, Null)
\* getHeaders, reading the config object cfg
getHeaders(cfg, contentType) ==
    Headers(Some(APPLICATION_JSON),
            IF Truthy(contentType) THEN contentType ELSE Null,
            IF Truthy(cfg.apiKey) THEN cfg.apiKey ELSE Null)
\* the options the transport operations pass to fetchWithErrorHandling
Options(method, headers) == [method |-> method, headers |-> headers]
Operations ==
    [uploadDocument |-> Options("POST", NoHeaders),
     checkDocumentStatus |-> Options("GET", NoHeaders),
     deleteDocument |-> Options("DELETE", NoHeaders),
     queryDocument |-> Options("POST", Headers(Null, Some(APPLICATION_JSON), Null)),
     askQuestion |-> Options("POST", Headers(Null, Some(APPLICATION_JSON), Null)),
     getHealth |-> Options("GET", NoHeaders)]
NoRequest == [operation |-> "none", method |-> "none", headers |-> NoHeaders]

\* ------------------------------------------------------------ DocumentUploader.tsx, pure parts
getErrorMessageNetworkFirst(error) ==
    IF error.response # Null /\ Val(error.response).status = 413 THEN FILE_TOO_LARGE
    ELSE LET detail == IF error.response # Null THEN Val(error.response).detail ELSE Null
             errorMessage == IF Truthy(detail) THEN Val(detail)
                             ELSE IF Truthy(error.message) THEN Val(error.message)
                             ELSE UNKNOWN_ERROR
         IN  IF Includes(errorMessage, NETWORK_WORD) THEN CONNECTION_ERROR
             ELSE IF Includes(errorMessage, CORRUPTED_WORD) THEN CORRUPTED_PDF
             ELSE IF Includes(errorMessage, NO_TEXT_CONTENT) THEN EMPTY_PDF
             ELSE errorMessage
getErrorMessage(error) ==
    IF error.response # Null /\ Val(error.response).status = 413 THEN FILE_TOO_LARGE
    ELSE LET detail == IF error.response # Null THEN Val(error.response).detail ELSE Null
             errorMessage == IF Truthy(detail) THEN Val(detail)
                             ELSE IF Truthy(error.message) THEN Val(error.message)
                             ELSE UNKNOWN_ERROR
         IN  IF Includes(errorMessage, CORRUPTED_WORD) THEN CORRUPTED_PDF
             ELSE IF Includes(errorMessage, NO_TEXT_CONTENT) THEN EMPTY_PDF
             ELSE IF Includes(errorMessage, NETWORK_WORD) THEN CONNECTION_ERROR
             ELSE errorMessage

validateFileSizeFirst(file) ==
    IF file.size > MAX_FILE_SIZE THEN Some(FILE_TOO_LARGE)
    ELSE IF ~EndsWith(ToLowerCase(file.name), PDF_EXTENSION) THEN Some(INVALID_TYPE)
    ELSE Null
validateFileInclusive(file) ==
    IF ~EndsWith(ToLowerCase(file.name), PDF_EXTENSION) THEN Some(INVALID_TYPE)
    ELSE IF file.size >= MAX_FILE_SIZE THEN Some(FILE_TOO_LARGE)
    ELSE Null
validateFile(file) ==
    IF ~EndsWith(ToLowerCase(file.name), PDF_EXTENSION) THEN Some(INVALID_TYPE)
    ELSE IF file.size > MAX_FILE_SIZE THEN Some(FILE_TOO_LARGE)
    ELSE Null

LineTerminators == {"\n", "\r"}
\* " (<digits>%)" stands at position j of s, with k digits
PercentAt(s, j, k) ==
    /\ k >= 1
    /\ j >= 1
    /\ j + 3 + k <= Len(s)
    /\ s[j] = " "
    /\ s[j + 1] = "("
    /\ \A d \in (j + 2)..(j + 1 + k) : IsDigit(s[d])
    /\ s[j + 2 + k] = "%"
    /\ s[j + 3 + k] = ")"
\* the positions where " \((\d+)%\)" matches, and where "processing: " stands
PercentPositions(s) ==
    {j \in 1..Len(s) : j + 4 <= Len(s) /\ s[j] = " " /\ s[j + 1] = "("
                        /\ \E k \in 1..(Len(s) - j - 3) : PercentAt(s, j, k)}
PrefixPositions(s) == {i \in 1..Len(s) : OccursAt(s, PROCESSING_PREFIX, i)}
\* /processing: .* \((\d+)%\)/ matches from position i with the percentage at
\* position j: .* takes what lies between, and takes no line terminator
ProgressMatchAt(s, i, j) ==
    /\ i \in PrefixPositions(s)
    /\ j \in PercentPositions(s)
    /\ j >= i + Len(PROCESSING_PREFIX)
    /\ \A x \in (i + Len(PROCESSING_PREFIX))..(j - 1) : s[x] \notin LineTerminators
MatchStarts(s) == {i \in PrefixPositions(s) : \E j \in PercentPositions(s) : ProgressMatchAt(s, i, j)}
ProgressMatches(s) == MatchStarts(s) # {}
\* the digits the group captures: leftmost start, then the greedy .* takes the last percentage
ProgressDigits(s) ==
    LET i == CHOOSE a \in MatchStarts(s) : \A b \in MatchStarts(s) : a <= b
        ends == {a \in PercentPositions(s) : ProgressMatchAt(s, i, a)}
        j == CHOOSE a \in ends : \A b \in ends : b <= a
        k == CHOOSE n \in 1..Len(s) : PercentAt(s, j, n)
    IN  SubSeq(s, j + 2, j + 1 + k)
parseProgressFromStatusZero(status) ==
    IF ProgressMatches(status) THEN Some(ParseInt(ProgressDigits(status))) ELSE Some(0)
\* null, or the fraction parseInt(digits, 10) / 100 in hundredths
parseProgressFromStatus(status) ==
    IF ProgressMatches(status) THEN Some(ParseInt(ProgressDigits(status))) ELSE Null

\* a comparison that never recognises the completed report
IsCompletedNever(status) == FALSE
\* status.status === 'completed'
IsCompleted(status) == status = COMPLETED
\* status.status.startsWith('error')
IsErrorStatus(status) == StartsWith(status, ERROR_WORD)
\* the status text shown as it came, prefix included
ErrorTextUnstripped(status) == status
\* status.status.replace('error: ', '')
ErrorText(status) == ReplaceFirst(status, ERROR_PREFIX, EMPTY)


\* ------------------------------------------------------------ QueryInterface.tsx, pure parts
\* EMPTY_QUESTION is the text "Please enter a question"
EMPTY_QUESTION == <<"P", "l", "e", "a", "s", "e", " ", "e", "n", "t", "e", "r", " ", "a", " ", "q", "u", "e", "s", "t", "i", "o", "n">>
\* TOO_LONG is the text "Question is too long (max 500 characters)"
TOO_LONG == <<"Q", "u", "e", "s", "t", "i", "o", "n", " ", "i", "s", " ", "t", "o", "o", " ", "l", "o", "n", "g", " ", "(", "m", "a", "x", " ", "5", "0", "0", " ", "c", "h", "a", "r", "a", "c", "t", "e", "r", "s", ")">>
\* NETWORK_ERROR is the text "Failed to connect to the server. Please check your internet connection."
NETWORK_ERROR == <<"F", "a", "i", "l", "e", "d", " ", "t", "o", " ", "c", "o", "n", "n", "e", "c", "t", " ", "t", "o", " ", "t", "h", "e", " ", "s", "e", "r", "v", "e", "r", ".", " ", "P", "l", "e", "a", "s", "e", " ", "c", "h", "e", "c", "k", " ", "y", "o", "u", "r", " ", "i", "n", "t", "e", "r", "n", "e", "t", " ", "c", "o", "n", "n", "e", "c", "t", "i", "o", "n", ".">>
\* SERVER_ERROR is the text "An error occurred while processing your question. Please try again."
SERVER_ERROR == <<"A", "n", " ", "e", "r", "r", "o", "r", " ", "o", "c", "c", "u", "r", "r", "e", "d", " ", "w", "h", "i", "l", "e", " ", "p", "r", "o", "c", "e", "s", "s", "i", "n", "g", " ", "y", "o", "u", "r", " ", "q", "u", "e", "s", "t", "i", "o", "n", ".", " ", "P", "l", "e", "a", "s", "e", " ", "t", "r", "y", " ", "a", "g", "a", "i", "n", ".">>
\* DOC_NOT_FOUND is the text "The document was not found or has not been processed yet."
DOC_NOT_FOUND == <<"T", "h", "e", " ", "d", "o", "c", "u", "m", "e", "n", "t", " ", "w", "a", "s", " ", "n", "o", "t", " ", "f", "o", "u", "n", "d", " ", "o", "r", " ", "h", "a", "s", " ", "n", "o", "t", " ", "b", "e", "e", "n", " ", "p", "r", "o", "c", "e", "s", "s", "e", "d", " ", "y", "e", "t", ".">>
MAX_QUESTION_LENGTH == 500

\* String.prototype.trim
WhiteSpace == {" ", "\t", "\n", "\r"}
Trim(s) ==
    LET kept == {i \in 1..Len(s) : s[i] \notin WhiteSpace}
    IN  IF kept = {} THEN EMPTY
        ELSE SubSeq(s, CHOOSE i \in kept : \A j \in kept : i <= j,
                       CHOOSE i \in kept : \A j \in kept : i >= j)

\* getErrorMessage of QueryInterface (lines 37-48)
QueryInterface_getErrorMessage(err) ==
    IF err.response # Null /\ Val(err.response).status = 404 THEN DOC_NOT_FOUND
    ELSE IF err.response # Null /\ Val(err.response).status = 400
         THEN IF Truthy(Val(err.response).detail) THEN Val(Val(err.response).detail) ELSE SERVER_ERROR
    ELSE IF err.message # Null /\ Includes(Val(err.message), NETWORK_WORD) THEN NETWORK_ERROR
    ELSE SERVER_ERROR

validateQuestionNoLimit(text) ==
    IF Trim(text) = EMPTY THEN Some(EMPTY_QUESTION)
    ELSE Null
validateQuestion(text) ==
    IF Trim(text) = EMPTY THEN Some(EMPTY_QUESTION)
    ELSE IF Len(text) > MAX_QUESTION_LENGTH THEN Some(TOO_LONG)
    ELSE Null
\* what handleSubmit decides for the question text (lines 64-68): the error it
\* sets, and whether it goes on to call askQuestion
Submission(text) ==
    LET validationError == validateQuestion(text)
    IN  IF validationError # Null
        THEN [error |-> Val(validationError), asked |-> FALSE]
        ELSE [error |-> EMPTY, asked |-> TRUE]

\* ------------------------------------------------------------ inputs
\* event.target.files?.[0]: no file, or a file with a name and a byte size
Files ==
    { [name |-> <<"r", "e", "p", "o", "r", "t", ".", "p", "d", "f">>, size |-> 2 * 1024 * 1024],
      [name |-> <<"R", "E", "P", "O", "R", "T", ".", "P", "D", "F">>, size |-> MAX_FILE_SIZE],
      [name |-> <<"b", "i", "g", ".", "p", "d", "f">>, size |-> MAX_FILE_SIZE + 1],
      [name |-> <<"n", "o", "t", "e", "s", ".", "t", "x", "t">>, size |-> MAX_FILE_SIZE + 1] }
FileSelections == {Null} \cup {Some(f) : f \in Files}

\* status texts the service may report
StatusTexts ==
    { COMPLETED,
      <<"e", "r", "r", "o", "r", ":", " ", "m", "o", "d", "e", "l", " ", "u", "n", "a", "v", "a", "i", "l", "a", "b", "l", "e">>,
      <<"e", "r", "r", "o", "r", ":", " ">>,
      <<"e", "r", "r", "o", "r">>,
      <<"p", "r", "o", "c", "e", "s", "s", "i", "n", "g", ":", " ", "e", "x", "t", "r", "a", "c", "t", "i", "n", "g", " ", "t", "e", "x", "t", " ", "(", "1", "0", "%", ")">>,
      <<"p", "r", "o", "c", "e", "s", "s", "i", "n", "g", ":", " ", "e", "x", "t", "r", "a", "c", "t", "i", "n", "g", " ", "t", "e", "x", "t", " ", "(", "2", "0", "%", ")">>,
      <<"p", "r", "o", "c", "e", "s", "s", "i", "n", "g", ":", " ", "e", "x", "t", "r", "a", "c", "t", "i", "n", "g", " ", "t", "e", "x", "t", " ", "(", "3", "0", "%", ")">>,
      <<"p", "r", "o", "c", "e", "s", "s", "i", "n", "g", ":", " ", "e", "x", "t", "r", "a", "c", "t", "i", "n", "g", " ", "t", "e", "x", "t", " ", "(", "4", "0", "%", ")">>,
      <<"p", "r", "o", "c", "e", "s", "s", "i", "n", "g", ":", " ", "e", "x", "t", "r", "a", "c", "t", "i", "n", "g", " ", "t", "e", "x", "t", " ", "(", "5", "0", "%", ")">>,
      <<"p", "r", "o", "c", "e", "s", "s", "i", "n", "g", ":", " ", "e", "m", "b", "e", "d", "d", "i", "n", "g", " ", "c", "h", "u", "n", "k", "s", " ", "(", "4", "2", "%", ")">>,
      <<"p", "r", "o", "c", "e", "s", "s", "i", "n", "g", ":", " ", "e", "m", "b", "e", "d", "d", "i", "n", "g", " ", "c", "h", "u", "n", "k", "s", " ", "(", "1", "5", "0", "%", ")">>,
      <<"p", "r", "o", "c", "e", "s", "s", "i", "n", "g">> }
StatusReport(text) == JsonBody(Null, Null, Some(text), Some(<<"a", "b", "c">>))
StatusResponses ==
    {HttpResponse(200, StatusReport(t)) : t \in StatusTexts}
        \cup { FetchRejected,
               HttpResponse(500, NotJsonBody),
               HttpResponse(204, NotJsonBody),
               HttpResponse(200, JsonBody(Null, Null, Null, Null)) }
UploadResponses ==
    { HttpResponse(200, JsonBody(Null, Null, Null, Some(<<"a", "b", "c">>))),
      HttpResponse(413, JsonBody(Null, Some(<<"F", "i", "l", "e", " ", "t", "o", "o", " ", "l", "a", "r", "g", "e">>), Null, Null)),
      HttpResponse(400, JsonBody(Null, Some(<<"P", "D", "F", " ", "f", "i", "l", "e", " ", "i", "s", " ", "c", "o", "r", "r", "u", "p", "t", "e", "d">>), Null, Null)),
      HttpResponse(500, NotJsonBody),
      HttpResponse(204, NotJsonBody),
      FetchRejected }
\* parseProgressFromStatus of every status text the service sends, computed once
ProgressOfStatus == [t \in StatusTexts |-> parseProgressFromStatus(t)]
\* the reports of the scenario of section 8: five progress reports, then completed
ScenarioReports ==
    << <<"p", "r", "o", "c", "e", "s", "s", "i", "n", "g", ":", " ", "e", "x", "t", "r", "a", "c", "t", "i", "n", "g", " ", "t", "e", "x", "t", " ", "(", "1", "0", "%", ")">>,
       <<"p", "r", "o", "c", "e", "s", "s", "i", "n", "g", ":", " ", "e", "x", "t", "r", "a", "c", "t", "i", "n", "g", " ", "t", "e", "x", "t", " ", "(", "2", "0", "%", ")">>,
       <<"p", "r", "o", "c", "e", "s", "s", "i", "n", "g", ":", " ", "e", "x", "t", "r", "a", "c", "t", "i", "n", "g", " ", "t", "e", "x", "t", " ", "(", "3", "0", "%", ")">>,
       <<"p", "r", "o", "c", "e", "s", "s", "i", "n", "g", ":", " ", "e", "x", "t", "r", "a", "c", "t", "i", "n", "g", " ", "t", "e", "x", "t", " ", "(", "4", "0", "%", ")">>,
       <<"p", "r", "o", "c", "e", "s", "s", "i", "n", "g", ":", " ", "e", "x", "t", "r", "a", "c", "t", "i", "n", "g", " ", "t", "e", "x", "t", " ", "(", "5", "0", "%", ")">>,
       COMPLETED >>
DeleteResponses ==
    { HttpResponse(204, NotJsonBody),
      HttpResponse(200, NotJsonBody),
      HttpResponse(404, JsonBody(Null, Some(<<"D", "o", "c", "u", "m", "e", "n", "t", " ", "n", "o", "t", " ", "f", "o", "u", "n", "d">>), Null, Null)),
      FetchRejected }

\* what the user types into the question field
Questions ==
    { EMPTY,
      <<" ", " ", " ">>,
      <<"W", "h", "a", "t", " ", "i", "s", " ", "t", "h", "e", " ", "t", "o", "t", "a", "l", "?">>,
      <<" ", "W", "h", "y", "?", " ">> }
AskResponses ==
    { HttpResponse(200, JsonBody(Null, Null, Null, Null)),
      HttpResponse(404, JsonBody(Null, Some(<<"D", "o", "c", "u", "m", "e", "n", "t", " ", "n", "o", "t", " ", "f", "o", "u", "n", "d">>), Null, Null)),
      HttpResponse(400, JsonBody(Null, Some(<<"D", "o", "c", "u", "m", "e", "n", "t", " ", "i", "s", " ", "n", "o", "t", " ", "r", "e", "a", "d", "y">>), Null, Null)),
      HttpResponse(500, NotJsonBody),
      FetchRejected }

\* ---- inputs the pure functions are applied to
PdfNames ==
    { <<"r", "e", "p", "o", "r", "t", ".", "p", "d", "f">>,
      <<"R", "E", "P", "O", "R", "T", ".", "P", "D", "F">>,
      <<"R", "e", "p", "o", "r", "t", ".", "P", "d", "f">>,
      <<".", "p", "d", "f">>,
      <<"n", "o", "t", "e", "s", ".", "t", "x", "t", ".", "p", "d", "f">>,
      <<"m", "y", " ", "f", "i", "l", "e", ".", "p", "D", "F">> }
NonPdfNames ==
    { <<"n", "o", "t", "e", "s", ".", "t", "x", "t">>,
      <<"r", "e", "p", "o", "r", "t", ".", "p", "d", "f", ".", "t", "x", "t">>,
      <<"r", "e", "p", "o", "r", "t", "p", "d", "f">>,
      <<"p", "d", "f">>,
      <<"r", "e", "p", "o", "r", "t", ".", "p", "d", "f", " ">>,
      <<"r", "e", "p", "o", "r", "t", ".", "p", "d">>,
      EMPTY }
FileSizes == {0, 1, 10485759, 10485760, 10485761, 20971520}
UnitFiles == {[name |-> n, size |-> z] : n \in PdfNames \cup NonPdfNames, z \in FileSizes}

\* processing: <free text> (<integer>%)
ProgressStatus(text, n) ==
    PROCESSING_PREFIX \o text \o <<" ", "(">> \o NumberToString(n) \o <<"%", ")">>
FreeTexts ==
    { <<"e", "m", "b", "e", "d", "d", "i", "n", "g", " ", "c", "h", "u", "n", "k", "s">>,
      <<"e", "x", "t", "r", "a", "c", "t", "i", "n", "g", " ", "t", "e", "x", "t">>,
      <<"x">>,
      <<"s", "t", "e", "p", " ", "2", " ", "(", "o", "f", " ", "3", ")">>,
      EMPTY }
Percentages == {0, 5, 42, 50, 99, 100}
PatternStatuses == {ProgressStatus(text, n) : text \in FreeTexts, n \in Percentages}
PatternlessStatuses ==
    { COMPLETED,
      <<"p", "r", "o", "c", "e", "s", "s", "i", "n", "g">>,
      <<"p", "r", "o", "c", "e", "s", "s", "i", "n", "g", ":", " ", "e", "m", "b", "e", "d", "d", "i", "n", "g", " ", "c", "h", "u", "n", "k", "s">>,
      <<"p", "r", "o", "c", "e", "s", "s", "i", "n", "g", ":", " ", "4", "2", "%">>,
      <<"p", "r", "o", "c", "e", "s", "s", "i", "n", "g", ":", " ", "e", "m", "b", "e", "d", "d", "i", "n", "g", " ", "c", "h", "u", "n", "k", "s", " ", "(", "4", "2", ")">>,
      <<"p", "r", "o", "c", "e", "s", "s", "i", "n", "g", ":", " ", "e", "m", "b", "e", "d", "d", "i", "n", "g", " ", "c", "h", "u", "n", "k", "s", " ", "(", "%", ")">>,
      <<"p", "r", "o", "c", "e", "s", "s", "i", "n", "g", ":", " ", "e", "m", "b", "e", "d", "d", "i", "n", "g", " ", "c", "h", "u", "n", "k", "s", " ", "(", "4", ".", "2", "%", ")">>,
      <<"p", "r", "o", "c", "e", "s", "s", "i", "n", "g", ":", " ", "(", "4", "2", "%", ")">>,
      <<"P", "r", "o", "c", "e", "s", "s", "i", "n", "g", ":", " ", "e", "m", "b", "e", "d", "d", "i", "n", "g", " ", "c", "h", "u", "n", "k", "s", " ", "(", "4", "2", "%", ")">>,
      <<"e", "m", "b", "e", "d", "d", "i", "n", "g", " ", "c", "h", "u", "n", "k", "s", " ", "(", "4", "2", "%", ")">>,
      <<"e", "r", "r", "o", "r", ":", " ", "m", "o", "d", "e", "l", " ", "u", "n", "a", "v", "a", "i", "l", "a", "b", "l", "e">>,
      EMPTY }
UnitStatuses == PatternStatuses \cup PatternlessStatuses

\* failure messages by the keywords they contain
CorruptedTexts ==
    { <<"P", "D", "F", " ", "f", "i", "l", "e", " ", "i", "s", " ", "c", "o", "r", "r", "u", "p", "t", "e", "d">>,
      <<"c", "o", "r", "r", "u", "p", "t", "e", "d">>,
      <<"n", "e", "t", "w", "o", "r", "k", " ", "e", "r", "r", "o", "r", ":", " ", "f", "i", "l", "e", " ", "c", "o", "r", "r", "u", "p", "t", "e", "d">>,
      <<"n", "o", " ", "t", "e", "x", "t", " ", "c", "o", "n", "t", "e", "n", "t", ",", " ", "f", "i", "l", "e", " ", "c", "o", "r", "r", "u", "p", "t", "e", "d">>,
      <<"c", "o", "r", "r", "u", "p", "t", "e", "d", ":", " ", "n", "o", " ", "t", "e", "x", "t", " ", "c", "o", "n", "t", "e", "n", "t", " ", "(", "n", "e", "t", "w", "o", "r", "k", " ", "s", "t", "o", "r", "a", "g", "e", ")">> }
NoTextTexts ==
    { <<"n", "o", " ", "t", "e", "x", "t", " ", "c", "o", "n", "t", "e", "n", "t", " ", "c", "o", "u", "l", "d", " ", "b", "e", " ", "e", "x", "t", "r", "a", "c", "t", "e", "d">>,
      <<"n", "e", "t", "w", "o", "r", "k", " ", "v", "o", "l", "u", "m", "e", ":", " ", "n", "o", " ", "t", "e", "x", "t", " ", "c", "o", "n", "t", "e", "n", "t">> }
NetworkTexts ==
    { <<"n", "e", "t", "w", "o", "r", "k", " ", "u", "n", "r", "e", "a", "c", "h", "a", "b", "l", "e">>,
      <<"a", " ", "n", "e", "t", "w", "o", "r", "k", " ", "e", "r", "r", "o", "r", " ", "o", "c", "c", "u", "r", "r", "e", "d">> }
PlainTexts ==
    { <<"I", "n", "t", "e", "r", "n", "a", "l", " ", "s", "e", "r", "v", "e", "r", " ", "e", "r", "r", "o", "r">>,
      <<"H", "T", "T", "P", " ", "e", "r", "r", "o", "r", "!", " ", "s", "t", "a", "t", "u", "s", ":", " ", "5", "0", "0">>,
      <<"F", "a", "i", "l", "e", "d", " ", "t", "o", " ", "f", "e", "t", "c", "h">>,
      <<"T", "h", "e", " ", "P", "D", "F", " ", "i", "s", " ", "C", "o", "r", "r", "u", "p", "t", "e", "d">>,
      <<"N", "o", " ", "T", "e", "x", "t", " ", "C", "o", "n", "t", "e", "n", "t">>,
      <<"N", "e", "t", "w", "o", "r", "k", " ", "d", "o", "w", "n">> }
FailureTexts == CorruptedTexts \cup NoTextTexts \cup NetworkTexts \cup PlainTexts
\* the errors api.ts raises for them
UnitErrors == {ErrorOf(API_REQUEST_FAILED \o t) : t \in FailureTexts}
\* the text of an error of UnitErrors after the prefix
ServerText(err) == SubSeq(Val(err.message), Len(API_REQUEST_FAILED) + 1, Len(Val(err.message)))

\* responses fetch() may resolve with
\* ErrorField is the text "Document is locked"
ErrorField == <<"D", "o", "c", "u", "m", "e", "n", "t", " ", "i", "s", " ", "l", "o", "c", "k", "e", "d">>
\* DetailField is the text "Document not found"
DetailField == <<"D", "o", "c", "u", "m", "e", "n", "t", " ", "n", "o", "t", " ", "f", "o", "u", "n", "d">>
FailureCodes == {400, 401, 404, 413, 500, 503}
SuccessCodes == {200, 201, 204}
FailureBodies ==
    { JsonBody(Some(ErrorField), Some(DetailField), Null, Null),
      JsonBody(Some(ErrorField), Null, Null, Null),
      JsonBody(Null, Some(DetailField), Null, Null),
      JsonBody(Some(EMPTY), Some(DetailField), Null, Null),
      JsonBody(Null, Null, Null, Null),
      NotJsonBody }
UnitResponses ==
    {HttpResponse(code, body) : code \in FailureCodes, body \in FailureBodies}
        \cup {HttpResponse(code, body) : code \in SuccessCodes,
                                         body \in {JsonBody(Null, Null, Null, Null), NotJsonBody}}
        \cup {FetchRejected}
\* the decimal text of the status codes above
CodeText ==
    [code \in FailureCodes |->
        CASE code = 400 -> <<"4", "0", "0">>
          [] code = 401 -> <<"4", "0", "1">>
          [] code = 404 -> <<"4", "0", "4">>
          [] code = 413 -> <<"4", "1", "3">>
          [] code = 500 -> <<"5", "0", "0">>
          [] code = 503 -> <<"5", "0", "3">>]

\* question texts a submission may carry
Repeat(char, n) == [i \in 1..n |-> char]
BlankQuestions ==
    { EMPTY,
      <<" ">>,
      <<" ", " ", " ">>,
      <<"\t", " ", "\n">>,
      Repeat(" ", 501) }
LongQuestions ==
    { Repeat("a", 501),
      Repeat("a", 600),
      <<"a">> \o Repeat(" ", 500),
      <<"W", "h", "y", " ">> \o Repeat("?", 497) }
ValidQuestions ==
    { <<"W", "h", "y", "?">>,
      <<" ", "W", "h", "y", "?", " ">>,
      <<"W", "h", "a", "t", " ", "i", "s", " ", "t", "h", "e", " ", "t", "o", "t", "a", "l", "?">>,
      Repeat("a", 499),
      Repeat("a", 500),
      <<" ">> \o Repeat("a", 498) \o <<" ">> }
UnitQuestions == BlankQuestions \cup LongQuestions \cup ValidQuestions

NoUnit == [fn |-> "none", arg |-> Null, done |-> TRUE, result |-> Null]
UnitCall(fn, arg) == [fn |-> fn, arg |-> arg, done |-> FALSE, result |-> Null]
UnitCalls ==
    {UnitCall("validateFile", f) : f \in UnitFiles}
        \cup {UnitCall("parseProgressFromStatus", t) : t \in UnitStatuses}
        \cup {UnitCall("getErrorMessage", e) : e \in UnitErrors}
        \cup {UnitCall("QueryInterface_getErrorMessage", e) : e \in UnitErrors}
        \cup {UnitCall("fetchWithErrorHandling", r) : r \in UnitResponses}
        \cup {UnitCall("handleSubmit", q) : q \in UnitQuestions}

\* ------------------------------------------------------------ state
VARIABLES
    \* DocumentUploader's React state (useState, lines 26-30)
    isUploading, uploadProgress, progressPercent, retryCount, error,
    \* what the running handleFileUpload call closed over: the retryCount of the
    \* render it was created in, and the document_id of the upload response
    closureRetryCount, document_id,
    \* what checkStatus has outstanding: checkDocumentStatus calls that have
    \* not settled, and setTimeout(checkStatus) timers that have not fired
    checksInFlight, timersPending,
    \* where the handleFileUpload call of the current session stands:
    \* "idle" (none yet), "uploading" (upload in flight), "checking" (status check in
    \* flight), "scheduled" (setTimeout pending), "done" (returned, nothing pending)
    pc,
    \* App's React state
    currentDocument, isDeleting,
    \* history: file selections so far, and for the current session the status
    \* checks issued, whether a processing report was handled, whether one of
    \* them carried a percentage, whether any check returned a report, how the
    \* last settled check ended and the status text it returned, which branch
    \* ended the session, and the number of onDocumentProcessed calls
    sessions, checksIssued, polled, sawPercent, sawReport, lastResult, lastStatus, outcome, callbacks,
    \* history of the current session: upload requests issued, the HTTP status of
    \* the upload response (0 before it, and for a rejected fetch), how many settled
    \* checks have followed ScenarioReports so far (-1 once the session departed
    \* from it) and, while it follows, the values its reports gave setProgressPercent
    uploadsIssued, uploadCode, scenarioStep, progressLog,
    \* QueryInterface's React state (useState, lines 31-34); error is named
    \* queryError here
    question, isLoading, result, queryError,
    \* a call of one of the pure functions on its own: the function, its
    \* argument, whether it has returned, and what it returned
    unit,
    \* history of the last deletion: the HTTP status of its response (0 before
    \* it settles, and for a rejected fetch) and how it ended: "none" (not settled),
    \* "Deleted" (setCurrentDocument(null)) or "Alerted" (the alert was shown)
    deleteCode, deleteOutcome,
    \* api.ts: the module-level config object, and the request last handed to
    \* fetch() (operation "none" before the first)
    config, request,
    \* SystemMonitor's React state (useState, lines 33-35); error is named
    \* monitorError here
    health, monitorError, requiresAuth,
    \* the getHealth calls that have not settled yet, and the HTTP status of the
    \* health response handled last (0 before it, and for a rejected fetch)
    healthInFlight, healthCode

uploaderVars == <<isUploading, uploadProgress, progressPercent, retryCount, error>>
closureVars == <<closureRetryCount, document_id>>
loopVars == <<checksInFlight, timersPending>>
appVars == <<currentDocument, isDeleting>>
historyVars == <<checksIssued, polled, sawPercent, sawReport, lastResult, lastStatus, outcome, callbacks>>
logVars == <<uploadsIssued, uploadCode, scenarioStep, progressLog>>
queryVars == <<question, isLoading, result, queryError>>
deleteVars == <<deleteCode, deleteOutcome>>
apiVars == <<config, request>>
monitorVars == <<health, monitorError, requiresAuth, healthInFlight, healthCode>>
vars == <<uploaderVars, closureVars, pc, appVars, sessions, historyVars, loopVars, logVars, queryVars, unit,
          deleteVars, apiVars, monitorVars>>

BumpRestarts(n, cap) == IF n < MAX_RETRIES THEN n + 1 ELSE 0
\* a counter the model stops following at cap
Bump(n, cap) == IF n < cap THEN n + 1 ELSE cap

\* A DocumentUploader is mounted with its initial state and no session.
MountUploader ==
    /\ isUploading' = FALSE
    /\ uploadProgress' = EMPTY
    /\ progressPercent' = 0
    /\ retryCount' = 0
    /\ error' = Null
    /\ closureRetryCount' = 0
    /\ document_id' = Null
    /\ checksInFlight' = 0
    /\ timersPending' = 0
    /\ pc' = "idle"
    /\ checksIssued' = 0
    /\ polled' = FALSE
    /\ sawPercent' = FALSE
    /\ sawReport' = FALSE
    /\ lastResult' = "none"
    /\ lastStatus' = Null
    /\ outcome' = "none"
    /\ callbacks' = 0
    /\ uploadsIssued' = 0
    /\ uploadCode' = 0
    /\ scenarioStep' = 0
    /\ progressLog' = <<>>

\* the state after App is constructed
AppInit ==
    /\ isUploading = FALSE
    /\ uploadProgress = EMPTY
    /\ progressPercent = 0
    /\ retryCount = 0
    /\ error = Null
    /\ closureRetryCount = 0
    /\ document_id = Null
    /\ checksInFlight = 0
    /\ timersPending = 0
    /\ pc = "idle"
    /\ currentDocument = Null
    /\ isDeleting = FALSE
    /\ sessions = 0
    /\ checksIssued = 0
    /\ polled = FALSE
    /\ sawPercent = FALSE
    /\ sawReport = FALSE
    /\ lastResult = "none"
    /\ lastStatus = Null
    /\ outcome = "none"
    /\ callbacks = 0
    /\ uploadsIssued = 0
    /\ uploadCode = 0
    /\ scenarioStep = 0
    /\ progressLog = <<>>
    /\ question = EMPTY
    /\ isLoading = FALSE
    /\ result = Null
    /\ queryError = EMPTY
    /\ deleteCode = 0
    /\ deleteOutcome = "none"
    /\ config = [apiKey |-> Null]
    /\ request = NoRequest
    /\ health = Null
    /\ monitorError = Null
    /\ requiresAuth = FALSE
    /\ healthInFlight = 0
    /\ healthCode = 0

\* App renders the uploader only while there is no current document
UploaderMounted == currentDocument = Null
\* a file input that stays enabled during a session
InputNeverDisabled == FALSE
\* the file input's disabled attribute
InputDisabled == isUploading
\* retryCount >= MAX_RETRIES as checkStatus evaluates it: retryCount is the
\* constant of the render in which handleFileUpload was created
BudgetExhausted == closureRetryCount >= MAX_RETRIES

\* Math.ceil(a / b) for b > 0
Ceil(a, b) == -((-a) \div b)
\* the "Time remaining" line is rendered inside the progress view, once an
\* attempt has been counted (lines 165, 183)
TimeRemainingShown == isUploading /\ ~Truthy(error) /\ retryCount > 0
\* the seconds it displays (line 185)
TimeRemaining == Ceil((MAX_RETRIES - retryCount) * RETRY_INTERVAL, 1000)

\* ------------------------------------------------------------ handleFileUpload
\* a rejection that sets the error and goes on to upload all the same
RejectSelectionNoReturn(validationError) ==
    /\ isUploading' = FALSE
    /\ uploadProgress' = UPLOADING_TEXT
    /\ progressPercent' = 10
    /\ error' = validationError
    /\ pc' = "uploading"
    /\ outcome' = "Invalid"
    /\ uploadsIssued' = 1
\* validateFile rejected the file (lines 74-78)
RejectSelection(validationError) ==
    /\ isUploading' = FALSE
    /\ uploadProgress' = VALIDATING_TEXT
    /\ progressPercent' = 0
    /\ error' = validationError
    /\ pc' = "done"
    /\ outcome' = "Invalid"
    /\ uploadsIssued' = 0
StartUploadAtZero ==
    /\ isUploading' = TRUE
    /\ uploadProgress' = UPLOADING_TEXT
    /\ progressPercent' = 0
    /\ error' = Null
    /\ pc' = "uploading"
    /\ outcome' = "none"
    /\ uploadsIssued' = 1
\* the upload request is issued (lines 80-86)
StartUpload ==
    /\ isUploading' = TRUE
    /\ uploadProgress' = UPLOADING_TEXT
    /\ progressPercent' = 10
    /\ error' = Null
    /\ pc' = "uploading"
    /\ outcome' = "none"
    /\ uploadsIssued' = 1
\* up to the first await: reset, validate, start the upload
handleFileUpload(selection) ==
    /\ UploaderMounted
    /\ ~InputDisabled
    /\ sessions < MaxSessions
    /\ UNCHANGED <<queryVars, unit, apiVars, monitorVars, deleteVars>>
    /\ IF selection = Null
       THEN UNCHANGED vars
       ELSE /\ sessions' = sessions + 1
            /\ closureRetryCount' = retryCount
            /\ retryCount' = 0
            /\ document_id' = Null
            /\ checksIssued' = 0
            /\ polled' = FALSE
            /\ sawPercent' = FALSE
            /\ sawReport' = FALSE
            /\ lastResult' = "none"
            /\ lastStatus' = Null
            /\ callbacks' = 0
            /\ uploadCode' = 0
            /\ scenarioStep' = 0
            /\ progressLog' = <<>>
            /\ UNCHANGED <<appVars, loopVars>>
            /\ LET validationError == validateFile(Val(selection))
               IN  IF validationError # Null
                   THEN RejectSelection(validationError)
                   ELSE StartUpload

\* an outer catch that shows the error and starts polling all the same
UploadCatchPolls(err) ==
    /\ isUploading' = FALSE
    /\ error' = Some(getErrorMessage(err))
    /\ pc' = "checking"
    /\ checksIssued' = 1
    /\ checksInFlight' = checksInFlight + 1
    /\ UNCHANGED timersPending
    /\ outcome' = "UploadFailed"
    /\ UNCHANGED <<uploadProgress, progressPercent, retryCount, closureVars, appVars,
                   sessions, polled, sawPercent, sawReport, lastResult, lastStatus, callbacks, uploadsIssued>>
\* the outer catch (lines 131-135)
UploadCatch(err) ==
    /\ isUploading' = FALSE
    /\ error' = Some(getErrorMessage(err))
    /\ pc' = "done"
    /\ outcome' = "UploadFailed"
    /\ UNCHANGED loopVars
    /\ UNCHANGED <<uploadProgress, progressPercent, retryCount, closureVars, appVars,
                   sessions, checksIssued, polled, sawPercent, sawReport, lastResult, lastStatus, callbacks, uploadsIssued>>

\* the upload settles; on success checkStatus() is called at once
UploadSettles(resp) ==
    /\ pc = "uploading"
    /\ UNCHANGED <<queryVars, unit, apiVars, monitorVars, deleteVars>>
    /\ uploadCode' = resp.code
    /\ UNCHANGED <<scenarioStep, progressLog>>
    /\ LET r == fetchWithErrorHandling(resp)
       IN  IF r.threw THEN UploadCatch(r.error)
           ELSE IF r.value = Null THEN UploadCatch(ErrorOf(NULL_TYPE_ERROR))
           ELSE /\ document_id' = Val(r.value).document_id
                /\ pc' = "checking"
                /\ checksIssued' = 1
                /\ checksInFlight' = checksInFlight + 1
                /\ UNCHANGED timersPending
                /\ UNCHANGED <<uploaderVars, closureRetryCount, appVars, sessions, polled, sawPercent,
                               sawReport, lastResult, lastStatus, outcome, callbacks, uploadsIssued>>

\* ------------------------------------------------------------ checkStatus
\* the log of progress values: kept while the session follows ScenarioReports
KeepLog == progressLog' = IF scenarioStep' >= 0 THEN progressLog ELSE <<>>
LogProgress(p) == progressLog' = IF scenarioStep' >= 0 THEN Append(progressLog, p) ELSE <<>>
\* status === 'completed' (lines 94-97)
CheckCompleted(report) ==
    /\ isUploading' = FALSE
    /\ progressPercent' = 100
    /\ currentDocument' = Some(report)
    /\ callbacks' = callbacks + 1
    /\ pc' = "done"
    /\ outcome' = "Completed"
    /\ KeepLog
    /\ UNCHANGED <<uploadProgress, retryCount, error, isDeleting, polled, sawPercent, timersPending>>

\* an error branch that hands the report to onDocumentProcessed as well
CheckErrorNotifies(status) ==
    /\ isUploading' = FALSE
    /\ error' = Some(ErrorText(status))
    /\ currentDocument' = Some(StatusReport(status))
    /\ callbacks' = callbacks + 1
    /\ pc' = "done"
    /\ outcome' = "Failed"
    /\ KeepLog
    /\ UNCHANGED <<uploadProgress, progressPercent, retryCount, isDeleting, polled, sawPercent,
                   timersPending>>
\* status starts with 'error' (lines 98-100)
CheckError(status) ==
    /\ isUploading' = FALSE
    /\ error' = Some(ErrorText(status))
    /\ pc' = "done"
    /\ outcome' = "Failed"
    /\ KeepLog
    /\ UNCHANGED <<uploadProgress, progressPercent, retryCount, appVars, polled, sawPercent, callbacks,
                        timersPending>>

\* any other status (lines 101-117)
CheckProcessing(status) ==
    IF BudgetExhausted
    THEN /\ isUploading' = FALSE
         /\ error' = Some(PROCESSING_TIMEOUT)
         /\ pc' = "done"
         /\ outcome' = "TimedOut"
         /\ KeepLog
         /\ UNCHANGED <<uploadProgress, progressPercent, retryCount, appVars, polled, sawPercent, callbacks,
                        timersPending>>
    ELSE /\ LET progress == ProgressOfStatus[status]
            IN  /\ IF progress # Null
                   THEN progressPercent' = Val(progress) /\ LogProgress(Val(progress))
                   ELSE UNCHANGED progressPercent /\ KeepLog
                /\ sawPercent' = (sawPercent \/ progress # Null)
         /\ uploadProgress' = status
         /\ retryCount' = Bump(retryCount, RetryCap)
         /\ timersPending' = timersPending + 1
         /\ pc' = "scheduled"
         /\ polled' = TRUE
         /\ UNCHANGED <<isUploading, error, appVars, outcome, callbacks>>

\* the inner catch (lines 118-127)
CheckCatch ==
    IF BudgetExhausted
    THEN /\ isUploading' = FALSE
         /\ error' = Some(PROCESSING_FAILED)
         /\ pc' = "done"
         /\ outcome' = "ProcessingFailed"
         /\ KeepLog
         /\ UNCHANGED <<uploadProgress, progressPercent, retryCount, appVars, polled, sawPercent, callbacks,
                        timersPending>>
    ELSE /\ retryCount' = Bump(retryCount, RetryCap)
         /\ timersPending' = timersPending + 1
         /\ pc' = "scheduled"
         /\ KeepLog
         /\ UNCHANGED <<isUploading, uploadProgress, progressPercent, error, appVars,
                        polled, sawPercent, outcome, callbacks>>

\* checkDocumentStatus raised, or reading status.status of the value raised
CheckThrows(r) == r.threw \/ r.value = Null \/ Val(r.value).status = Null

\* the status check in flight settles
StatusSettles(resp) ==
    /\ pc = "checking"
    /\ checksInFlight > 0
    /\ checksInFlight' = checksInFlight - 1
    /\ UNCHANGED <<queryVars, unit, apiVars, monitorVars, deleteVars>>
    /\ UNCHANGED <<closureVars, sessions, checksIssued, uploadsIssued, uploadCode>>
    /\ LET r == fetchWithErrorHandling(resp)
       IN  IF CheckThrows(r)
           THEN /\ lastResult' = "threw"
                /\ scenarioStep' = -1
                /\ lastStatus' = Null
                /\ UNCHANGED sawReport
                /\ CheckCatch
           ELSE LET status == Val(Val(r.value).status)
                IN  /\ lastResult' = "report"
                    /\ lastStatus' = Some(status)
                    /\ sawReport' = TRUE
                    /\ scenarioStep' = IF /\ scenarioStep >= 0
                                          /\ scenarioStep < Len(ScenarioReports)
                                          /\ status = ScenarioReports[scenarioStep + 1]
                                       THEN scenarioStep + 1
                                       ELSE -1
                    /\ IF IsCompleted(status) THEN CheckCompleted(Val(r.value))
                       ELSE IF IsErrorStatus(status) THEN CheckError(status)
                       ELSE CheckProcessing(status)

\* a timer that fires again and again (setInterval)
TimerFiresRepeating ==
    /\ pc = "scheduled"
    /\ timersPending > 0
    /\ UNCHANGED timersPending
    /\ checksInFlight' = checksInFlight + 1
    /\ UNCHANGED <<queryVars, unit, apiVars, monitorVars, deleteVars>>
    /\ pc' = "checking"
    /\ checksIssued' = Bump(checksIssued, RetryCap + 1)
    /\ UNCHANGED <<uploaderVars, closureVars, appVars, sessions,
                   polled, sawPercent, sawReport, lastResult, lastStatus, outcome, callbacks, logVars>>
\* setTimeout(checkStatus, RETRY_INTERVAL) fires: the next status check is issued
TimerFires ==
    /\ pc = "scheduled"
    /\ timersPending > 0
    /\ timersPending' = timersPending - 1
    /\ checksInFlight' = checksInFlight + 1
    /\ UNCHANGED <<queryVars, unit, apiVars, monitorVars, deleteVars>>
    /\ pc' = "checking"
    /\ checksIssued' = Bump(checksIssued, RetryCap + 1)
    /\ UNCHANGED <<uploaderVars, closureVars, appVars, sessions,
                   polled, sawPercent, sawReport, lastResult, lastStatus, outcome, callbacks, logVars>>

\* ------------------------------------------------------------ QueryInterface.tsx
\* A QueryInterface that is mounted later starts from its initial state; the
\* state of an unmounted one is gone, and a response to its request is dropped.
MountQueryInterface ==
    /\ question' = EMPTY
    /\ isLoading' = FALSE
    /\ result' = Null
    /\ queryError' = EMPTY

QueryAlwaysMounted == TRUE
\* App renders the QueryInterface for a current document whose status is 'completed'
QueryMounted == currentDocument # Null /\ Val(currentDocument).status = Some(COMPLETED)
\* the question field: disabled={isLoading}
QuestionDisabled == isLoading
\* the submit button: disabled={isLoading || !question.trim()}
SubmitDisabled == isLoading \/ Trim(question) = EMPTY

\* onChange of the question field
SetQuestion(text) ==
    /\ QueryMounted
    /\ ~QuestionDisabled
    /\ question' = text
    /\ queryError' = EMPTY
    /\ UNCHANGED <<uploaderVars, closureVars, pc, appVars, sessions, historyVars, loopVars, logVars, unit,
                   apiVars, monitorVars, deleteVars,
                   isLoading, result>>

\* handleSubmit up to its await: the ask request is issued
handleSubmit ==
    /\ QueryMounted
    /\ ~SubmitDisabled
    /\ LET submission == Submission(question)
       IN  IF ~submission.asked
           THEN /\ queryError' = submission.error
                /\ UNCHANGED <<isLoading, result>>
           ELSE /\ isLoading' = TRUE
                /\ queryError' = submission.error
                /\ result' = Null
    /\ UNCHANGED <<uploaderVars, closureVars, pc, appVars, sessions, historyVars, loopVars, logVars, unit,
                   apiVars, monitorVars, deleteVars, question>>

\* the ask request settles: setResult or setError, finally setIsLoading(false)
AskSettles(resp) ==
    /\ QueryMounted
    /\ isLoading
    /\ isLoading' = FALSE
    /\ LET r == fetchWithErrorHandling(resp)
       IN  IF r.threw
           THEN /\ queryError' = QueryInterface_getErrorMessage(r.error)
                /\ UNCHANGED result
           ELSE /\ result' = r.value
                /\ UNCHANGED queryError
    /\ UNCHANGED <<uploaderVars, closureVars, pc, appVars, sessions, historyVars, loopVars, logVars, unit,
                   apiVars, monitorVars, deleteVars, question>>

\* ------------------------------------------------------------ App.tsx
\* "Change Document": setCurrentDocument(null), a fresh uploader is mounted
ChangeDocument ==
    /\ currentDocument # Null
    /\ currentDocument' = Null
    /\ MountUploader
    /\ MountQueryInterface
    /\ UNCHANGED <<unit, apiVars, monitorVars, deleteVars>>
    /\ UNCHANGED <<isDeleting, sessions>>

\* handleDeleteDocument up to its await
handleDeleteDocument ==
    /\ currentDocument # Null
    /\ ~isDeleting
    /\ UNCHANGED <<queryVars, unit, apiVars, monitorVars>>
    /\ isDeleting' = TRUE
    /\ deleteCode' = 0
    /\ deleteOutcome' = "none"
    /\ UNCHANGED <<uploaderVars, closureVars, pc, currentDocument, sessions, historyVars, loopVars, logVars>>

DeleteSettlesClears(resp) ==
    /\ isDeleting
    /\ isDeleting' = FALSE
    /\ deleteCode' = resp.code
    /\ UNCHANGED <<sessions, unit, apiVars, monitorVars>>
    /\ deleteOutcome' = IF fetchWithErrorHandling(resp).threw THEN "Alerted" ELSE "Deleted"
    /\ currentDocument' = Null
    /\ IF currentDocument # Null
       THEN MountUploader /\ MountQueryInterface
       ELSE UNCHANGED <<uploaderVars, closureVars, pc, historyVars, loopVars, logVars, queryVars>>
\* the deletion settles: on success setCurrentDocument(null), on failure the
\* alert; finally setIsDeleting(false)
DeleteSettles(resp) ==
    /\ isDeleting
    /\ isDeleting' = FALSE
    /\ deleteCode' = resp.code
    /\ UNCHANGED <<sessions, unit, apiVars, monitorVars>>
    /\ IF fetchWithErrorHandling(resp).threw
       THEN /\ deleteOutcome' = "Alerted"
            /\ UNCHANGED <<uploaderVars, closureVars, pc, currentDocument, historyVars, loopVars, logVars, queryVars>>
       ELSE /\ deleteOutcome' = "Deleted"
            /\ currentDocument' = Null
            /\ IF currentDocument # Null
               THEN MountUploader /\ MountQueryInterface
               ELSE UNCHANGED <<uploaderVars, closureVars, pc, historyVars, loopVars, logVars, queryVars>>

\* ------------------------------------------------------------ api.ts, requests
\* the credentials ApiKeyInput may pass: what is typed in its field, '' included
ApiKeys ==
    { EMPTY,
      <<"k">>,
      <<"k", "1">>,
      <<"s", "e", "c", "r", "e", "t">>,
      <<"k", "e", "y", "-", "2">> }
setApiKey(apiKey) ==
    /\ config' = [config EXCEPT !.apiKey = Some(apiKey)]
    /\ UNCHANGED <<uploaderVars, closureVars, pc, appVars, sessions, historyVars, loopVars, logVars, queryVars,
                   unit, deleteVars, request, monitorVars>>
\* fetchWithErrorHandling hands the request of a transport operation to fetch()
Fetch(operation) ==
    LET options == Operations[operation]
    IN  /\ request' = [operation |-> operation,
                       method |-> options.method,
                       headers |-> Spread(getHeaders(config, options.headers.ContentType),
                                          options.headers)]
        /\ UNCHANGED <<uploaderVars, closureVars, pc, appVars, sessions, historyVars, loopVars, logVars,
                       queryVars, unit, deleteVars, config>>
        /\ UNCHANGED <<health, monitorError, requiresAuth, healthCode>>
uploadDocument == Fetch("uploadDocument") /\ UNCHANGED healthInFlight
checkDocumentStatus == Fetch("checkDocumentStatus") /\ UNCHANGED healthInFlight
deleteDocument == Fetch("deleteDocument") /\ UNCHANGED healthInFlight
queryDocument == Fetch("queryDocument") /\ UNCHANGED healthInFlight
askQuestion == Fetch("askQuestion") /\ UNCHANGED healthInFlight
\* getHealth is called by SystemMonitor's fetchHealth only, on mount and every
\* 30 seconds; the call stays pending until its response is handled
getHealth ==
    /\ healthInFlight < MaxHealthInFlight
    /\ Fetch("getHealth")
    /\ healthInFlight' = healthInFlight + 1

\* ------------------------------------------------------------ SystemMonitor.tsx
\* UNAUTHORIZED_CODE is the text "401"
UNAUTHORIZED_CODE == <<"4", "0", "1">>
\* what the service answers to a health request
HealthResponses ==
    { HttpResponse(200, JsonBody(Null, Null, Some(<<"h", "e", "a", "l", "t", "h", "y">>), Null)),
      HttpResponse(401, NotJsonBody),
      HttpResponse(401, JsonBody(Null, Null, Null, Null)),
      HttpResponse(401, JsonBody(Null, Some(<<"I", "n", "v", "a", "l", "i", "d", " ", "A", "P", "I", " ", "k", "e", "y">>), Null, Null)),
      HttpResponse(401, JsonBody(Some(<<"U", "n", "a", "u", "t", "h", "o", "r", "i", "z", "e", "d">>), Null, Null, Null)),
      HttpResponse(500, JsonBody(Null, Some(<<"I", "n", "t", "e", "r", "n", "a", "l", " ", "s", "e", "r", "v", "e", "r", " ", "e", "r", "r", "o", "r">>), Null, Null)),
      HttpResponse(503, NotJsonBody),
      FetchRejected }
\* what SystemMonitor renders: the credential field appears in the error view
\* and in the health view when requiresAuth is set, never in the loading view
ApiKeyInputShown ==
    /\ requiresAuth
    /\ Truthy(monitorError) \/ health # Null
\* fetchHealth after its await: the health data is stored, or the catch block
\* stores the message and looks for '401' in it
fetchHealth(resp) ==
    /\ healthInFlight > 0
    /\ healthInFlight' = healthInFlight - 1
    /\ healthCode' = resp.code
    /\ LET r == fetchWithErrorHandling(resp)
       IN  IF r.threw
           THEN /\ monitorError' = r.error.message
                /\ requiresAuth' = (requiresAuth \/ Includes(Val(r.error.message), UNAUTHORIZED_CODE))
                /\ UNCHANGED health
           ELSE /\ health' = r.value
                /\ monitorError' = Null
                /\ UNCHANGED requiresAuth
    /\ UNCHANGED <<uploaderVars, closureVars, pc, appVars, sessions, historyVars, loopVars, logVars,
                   queryVars, unit, deleteVars, apiVars>>

\* ------------------------------------------------------------ specification
Next ==
    \/ \E selection \in FileSelections : handleFileUpload(selection)
    \/ \E resp \in UploadResponses : UploadSettles(resp)
    \/ \E resp \in StatusResponses : StatusSettles(resp)
    \/ TimerFires
    \/ ChangeDocument
    \/ handleDeleteDocument
    \/ \E resp \in DeleteResponses : DeleteSettles(resp)
    \/ \E text \in Questions : SetQuestion(text)
    \/ handleSubmit
    \/ \E resp \in AskResponses : AskSettles(resp)

Init == AppInit /\ unit = NoUnit

Spec == Init /\ [][Next]_vars

\* ---- the pure functions on their own: a call is drawn, then it returns
appState ==
    <<uploaderVars, closureVars, pc, appVars, sessions, historyVars, loopVars, logVars, queryVars, deleteVars,
      apiVars, monitorVars>>
Return(fn, value) ==
    /\ unit.fn = fn
    /\ ~unit.done
    /\ unit' = [unit EXCEPT !.done = TRUE, !.result = value]
    /\ UNCHANGED appState
CallValidateFile == Return("validateFile", validateFile(unit.arg))
CallParseProgressFromStatus ==
    Return("parseProgressFromStatus", parseProgressFromStatus(unit.arg))
CallGetErrorMessage == Return("getErrorMessage", Some(getErrorMessage(unit.arg)))
CallQueryGetErrorMessage ==
    Return("QueryInterface_getErrorMessage", Some(QueryInterface_getErrorMessage(unit.arg)))
CallFetchWithErrorHandling ==
    Return("fetchWithErrorHandling", fetchWithErrorHandling(unit.arg))
CallSubmission == Return("handleSubmit", Submission(unit.arg))

PureInit == AppInit /\ unit \in UnitCalls
PureNext ==
    \/ CallValidateFile
    \/ CallParseProgressFromStatus
    \/ CallGetErrorMessage
    \/ CallQueryGetErrorMessage
    \/ CallFetchWithErrorHandling
    \/ CallSubmission
PureSpec == PureInit /\ [][PureNext]_vars

\* ---- the transport layer on its own: credentials are set, requests are sent
ApiNext ==
    \/ \E apiKey \in ApiKeys : setApiKey(apiKey)
    \/ uploadDocument
    \/ checkDocumentStatus
    \/ deleteDocument
    \/ queryDocument
    \/ askQuestion
    \/ getHealth
    \/ \E resp \in HealthResponses : fetchHealth(resp)
ApiSpec == Init /\ [][ApiNext]_vars

\* The browser delivers every response and fires every pending timer.
FairSpec ==
    /\ Spec
    /\ WF_vars(\E resp \in UploadResponses : UploadSettles(resp))
    /\ WF_vars(\E resp \in StatusResponses : StatusSettles(resp))
    /\ WF_vars(TimerFires)

\* ------------------------------------------------------------ properties
\* attempts the current session has made: retryCount is reset by every file
\* selection and incremented once per poll cycle
SessionAttempts == retryCount
\* the delay scheduled so far by the current session, in milliseconds
ScheduledDelay == SessionAttempts * RETRY_INTERVAL
SessionLive == pc \in {"uploading", "checking", "scheduled"}

\* C1: in a session whose checks return neither completed nor an error status, the
\* poller stops at 30 attempts: after a status report no next check is ever
\* scheduled as attempt 31.
C1_NoAttempt31 ==
    (pc = "scheduled" /\ lastResult = "report") => SessionAttempts <= MAX_RETRIES

\* C2: every polling session terminates: a session with an upload or a status
\* check in flight, or a check scheduled, eventually has nothing in flight or
\* scheduled.
C2_SessionTerminates == SessionLive ~> ~SessionLive

\* C3: TimedOut is emitted only after the session itself has made 30 attempts;
\* attempts of an earlier session in the same widget never count.
C3_TimedOutAfterOwnAttempts ==
    outcome = "TimedOut" => SessionAttempts >= MAX_RETRIES

\* C4: a session whose status checks all fail at the transport level never makes
\* more than 30 attempts and, when it ends, ends in TimedOut after exactly 30
\* attempts, 60000 ms of scheduled delay.
C4_TransportFailuresTimeOut ==
    (~sawReport /\ lastResult = "threw") =>
        /\ SessionAttempts <= MAX_RETRIES
        /\ pc = "done" =>
              /\ outcome = "TimedOut"
              /\ error = Some(PROCESSING_TIMEOUT)
              /\ ScheduledDelay = 60000

\* C5: a status check that fails at the transport level while the session has made
\* fewer than 30 attempts consumes exactly one attempt, schedules the next check
\* and surfaces no error: the session keeps polling.
C5_TransportFailureAbsorbed ==
    [][(pc = "checking" /\ pc' # "checking" /\ lastResult' = "threw"
            /\ SessionAttempts < MAX_RETRIES)
          => (retryCount' = retryCount + 1 /\ pc' = "scheduled"
                /\ error' = Null /\ isUploading')]_vars

\* C8: at most one polling loop is live per uploader widget: a file selection
\* starts a session only when no upload, status check or timer of an earlier
\* session is outstanding, and an unmounted uploader has none either.
C8_OneLoopPerWidget ==
    /\ [][sessions' # sessions => ~SessionLive]_vars
    /\ [](~UploaderMounted => ~SessionLive)
\* a second session is running in the widget in which the first one ended
C8_Witness == sessions = 2 /\ pc = "checking" /\ closureRetryCount > 0

\* C9: when a status check returns a status beginning with "error", the session
\* is Failed, nothing further is checked or scheduled, and for a status
\* "error: <message>" the message shown is <message>.
C9_ErrorStatusFails ==
    (lastResult = "report" /\ StartsWith(Val(lastStatus), ERROR_WORD)) =>
        /\ outcome = "Failed"
        /\ pc = "done"
        /\ ~isUploading
        /\ error # Null
        /\ StartsWith(Val(lastStatus), ERROR_PREFIX) =>
              Val(error) = SubSeq(Val(lastStatus), Len(ERROR_PREFIX) + 1, Len(Val(lastStatus)))
C9_Witness ==
    /\ lastStatus = Some(<<"e", "r", "r", "o", "r", ":", " ", "m", "o", "d", "e", "l", " ", "u", "n", "a", "v", "a", "i", "l", "a", "b", "l", "e">>)
    /\ error = Some(<<"m", "o", "d", "e", "l", " ", "u", "n", "a", "v", "a", "i", "l", "a", "b", "l", "e">>)
    /\ checksIssued > 1

\* C10: when the first status check after the upload returns "completed", the
\* session is Completed with no progress update from a status report in between,
\* the report is handed to onDocumentProcessed once, and no further check is made.
C10_FirstCheckCompleted ==
    (checksIssued = 1 /\ lastResult = "report" /\ lastStatus = Some(COMPLETED)) =>
        /\ outcome = "Completed"
        /\ ~polled
        /\ uploadProgress = UPLOADING_TEXT
        /\ progressPercent = 100
        /\ callbacks = 1
        /\ currentDocument = Some(StatusReport(COMPLETED))
        /\ pc = "done"
C10_Witness == checksIssued = 1 /\ outcome = "Completed" /\ currentDocument # Null

\* C11: when the status checks of a session return the reports of ScenarioReports
\* in order (10%, 20%, 30%, 40%, 50%, then completed), the progress values shown
\* are 0.1, 0.2, 0.3, 0.4, 0.5 in that order, one per report, then Completed.
C11_ScenarioProgress ==
    scenarioStep >= 1 =>
        /\ progressLog = SubSeq(<<10, 20, 30, 40, 50>>, 1, IF scenarioStep < 5 THEN scenarioStep ELSE 5)
        /\ scenarioStep <= 5 => (progressPercent = 10 * scenarioStep /\ pc \in {"scheduled", "checking"})
        /\ scenarioStep = 6 => (outcome = "Completed" /\ pc = "done")

\* C14: when validateFile rejects the selected file the session is Failed with the
\* validation message, and no upload and no status check is issued for it.
C14_RejectedFileNoRequest ==
    outcome = "Invalid" =>
        /\ pc = "done"
        /\ ~isUploading
        /\ error \in {Some(INVALID_TYPE), Some(FILE_TOO_LARGE)}
        /\ uploadsIssued = 0
        /\ checksIssued = 0
C14_Witness == outcome = "Invalid" /\ error = Some(FILE_TOO_LARGE) /\ sessions = 2

\* C15: when the upload request fails the session is Failed at once: one upload
\* was issued and is not retried, and no status check is issued or scheduled.
C15_UploadFailureEnds ==
    outcome = "UploadFailed" =>
        /\ pc = "done"
        /\ ~isUploading
        /\ Truthy(error)
        /\ uploadsIssued = 1
        /\ checksIssued = 0
C15_Witness == outcome = "UploadFailed" /\ uploadCode = 500 /\ Truthy(error)

\* C19: an upload the server rejects with HTTP status 413 ends the session in
\* Failed with the FileTooLarge message.
C19_Upload413FileTooLarge ==
    (outcome = "UploadFailed" /\ uploadCode = 413) => error = Some(FILE_TOO_LARGE)

\* C17: the attempts counter never decreases within a session: every step that
\* lowers retryCount sets it to 0, is taken while no upload or check of the
\* widget is in flight or scheduled, and is either the selection of a new file or
\* the replacement of the uploader by a freshly mounted one.
C17_CounterMonotonic ==
    [][retryCount' < retryCount =>
           /\ retryCount' = 0
           /\ ~SessionLive
           /\ \/ sessions' = sessions + 1
              \/ currentDocument # Null /\ currentDocument' = Null]_vars
C17_Witness ==
    sessions = 2 /\ closureRetryCount > 0 /\ retryCount > 0 /\ SessionLive

\* C16: an ask request is issued only in the Completed state: whenever one is
\* issued, the current document is one whose status check returned completed,
\* and that check is what ended the upload session.
C16_AskOnlyWhenCompleted ==
    [][(isLoading' /\ ~isLoading) =>
           /\ currentDocument # Null
           /\ Val(currentDocument).status = Some(COMPLETED)
           /\ outcome = "Completed"
           /\ lastStatus = Some(COMPLETED)
           /\ pc = "done"]_vars
C16_Witness == isLoading /\ outcome = "Completed" /\ currentDocument # Null


\* C12: validateFile checks the extension before the size: a file whose name
\* does not end with .pdf in any letter case is rejected with InvalidType
\* whatever its size, an oversized one included.
C12_ExtensionBeforeSize ==
    (unit.fn = "validateFile" /\ unit.done /\ unit.arg.name \in NonPdfNames) =>
        unit.result = Some(INVALID_TYPE)
C12_Witness ==
    /\ unit.fn = "validateFile" /\ unit.done
    /\ unit.arg = [name |-> <<"n", "o", "t", "e", "s", ".", "t", "x", "t">>, size |-> 20971520]
    /\ unit.result = Some(INVALID_TYPE)

\* C13: for a file whose name ends with .pdf, validateFile rejects with
\* FileTooLarge exactly when the size exceeds 10,485,760 bytes and accepts
\* otherwise; 10,485,760 bytes are accepted and 10,485,761 rejected.
C13_SizeLimit ==
    (unit.fn = "validateFile" /\ unit.done /\ unit.arg.name \in PdfNames) =>
        unit.result = IF unit.arg.size > 10485760 THEN Some(FILE_TOO_LARGE) ELSE Null
C13_Witness ==
    /\ unit.fn = "validateFile" /\ unit.done
    /\ unit.arg = [name |-> <<"R", "E", "P", "O", "R", "T", ".", "P", "D", "F">>, size |-> 10485760]
    /\ unit.result = Null

\* C18: parseProgressFromStatus returns the percentage, as a fraction of 100,
\* of a status of the form processing: <free text> (<integer>%), 0.42 for
\* processing: embedding chunks (42%), and null, never 0, for a status without
\* the pattern such as completed.
C18_ProgressExtraction ==
    (unit.fn = "parseProgressFromStatus" /\ unit.done) =>
        /\ \A text \in FreeTexts, n \in Percentages :
               unit.arg = ProgressStatus(text, n) => unit.result = Some(n)
        /\ unit.arg = <<"p", "r", "o", "c", "e", "s", "s", "i", "n", "g", ":", " ", "e", "m", "b", "e", "d", "d", "i", "n", "g", " ", "c", "h", "u", "n", "k", "s", " ", "(", "4", "2", "%", ")">> => unit.result = Some(42)
        /\ unit.arg \in PatternlessStatuses => (unit.result = Null /\ unit.result # Some(0))
C18_Witness ==
    /\ unit.fn = "parseProgressFromStatus" /\ unit.done
    /\ unit.arg = <<"p", "r", "o", "c", "e", "s", "s", "i", "n", "g", ":", " ", "e", "m", "b", "e", "d", "d", "i", "n", "g", " ", "c", "h", "u", "n", "k", "s", " ", "(", "4", "2", "%", ")">>
    /\ unit.result = Some(42)

\* C20 as stated: both classifiers map a failure message by the first of
\* corrupted, no text content, network that it contains to CorruptedSource,
\* EmptySource, NetworkError, and a message with none of them to one generic
\* ServerError text.
C20_FixedPriorityGeneric ==
    (unit.fn \in {"getErrorMessage", "QueryInterface_getErrorMessage"} /\ unit.done) =>
        LET text == ServerText(unit.arg)
        IN  IF text \in CorruptedTexts THEN unit.result = Some(CORRUPTED_PDF)
            ELSE IF text \in NoTextTexts THEN unit.result = Some(EMPTY_PDF)
            ELSE IF text \in NetworkTexts THEN unit.result \in {Some(CONNECTION_ERROR), Some(NETWORK_ERROR)}
            ELSE unit.result \in {Some(SERVER_ERROR), Some(UNKNOWN_ERROR), Some(PROCESSING_FAILED)}

\* C20, amended: the uploader's getErrorMessage classifies a message by the
\* first of corrupted, no text content, network that it contains, and shows a
\* message with none of them verbatim; the getErrorMessage of QueryInterface
\* knows only network and answers every other message with its generic
\* ServerError text.
C20_PriorityPerClassifier ==
    /\ (unit.fn = "getErrorMessage" /\ unit.done) =>
           LET text == ServerText(unit.arg)
           IN  unit.result =
                   IF text \in CorruptedTexts THEN Some(CORRUPTED_PDF)
                   ELSE IF text \in NoTextTexts THEN Some(EMPTY_PDF)
                   ELSE IF text \in NetworkTexts THEN Some(CONNECTION_ERROR)
                   ELSE unit.arg.message
    /\ (unit.fn = "QueryInterface_getErrorMessage" /\ unit.done) =>
           LET text == ServerText(unit.arg)
           IN  unit.result =
                   IF text \in NetworkTexts
                          \/ text = <<"n", "e", "t", "w", "o", "r", "k", " ", "e", "r", "r", "o", "r", ":", " ", "f", "i", "l", "e", " ", "c", "o", "r", "r", "u", "p", "t", "e", "d">>
                          \/ text = <<"c", "o", "r", "r", "u", "p", "t", "e", "d", ":", " ", "n", "o", " ", "t", "e", "x", "t", " ", "c", "o", "n", "t", "e", "n", "t", " ", "(", "n", "e", "t", "w", "o", "r", "k", " ", "s", "t", "o", "r", "a", "g", "e", ")">>
                          \/ text = <<"n", "e", "t", "w", "o", "r", "k", " ", "v", "o", "l", "u", "m", "e", ":", " ", "n", "o", " ", "t", "e", "x", "t", " ", "c", "o", "n", "t", "e", "n", "t">>
                   THEN Some(NETWORK_ERROR)
                   ELSE Some(SERVER_ERROR)
C20_Witness ==
    /\ unit.fn = "getErrorMessage" /\ unit.done
    /\ ServerText(unit.arg) = <<"c", "o", "r", "r", "u", "p", "t", "e", "d", ":", " ", "n", "o", " ", "t", "e", "x", "t", " ", "c", "o", "n", "t", "e", "n", "t", " ", "(", "n", "e", "t", "w", "o", "r", "k", " ", "s", "t", "o", "r", "a", "g", "e", ")">>
    /\ unit.result = Some(CORRUPTED_PDF)

\* C21: a response with a status outside 200..299 makes the transport wrapper
\* raise a failure whose message carries, after the wrapper's prefix, the error
\* field of the JSON body if it has a non-empty one, else its detail field, else
\* the generic text naming the HTTP status; a body that is not JSON gives the
\* generic text as well.
C21_FailureMessage ==
    (unit.fn = "fetchWithErrorHandling" /\ unit.done /\ ~unit.arg.rejected
         /\ unit.arg.code \in FailureCodes) =>
        LET body == unit.arg.body
            generic == <<"H", "T", "T", "P", " ", "e", "r", "r", "o", "r", "!", " ", "s", "t", "a", "t", "u", "s", ":", " ">> \o CodeText[unit.arg.code]
            text == IF body.json /\ body.error \notin {Null, Some(EMPTY)} THEN Val(body.error)
                    ELSE IF body.json /\ body.detail \notin {Null, Some(EMPTY)} THEN Val(body.detail)
                    ELSE generic
        IN  /\ unit.result.threw
            /\ unit.result.error.message = Some(<<"A", "P", "I", " ", "r", "e", "q", "u", "e", "s", "t", " ", "f", "a", "i", "l", "e", "d", ":", " ">> \o text)
C21_Witness ==
    /\ unit.fn = "fetchWithErrorHandling" /\ unit.done
    /\ unit.arg = HttpResponse(500, NotJsonBody)
    /\ unit.result.threw
    /\ unit.result.error.message = Some(<<"A", "P", "I", " ", "r", "e", "q", "u", "e", "s", "t", " ", "f", "a", "i", "l", "e", "d", ":", " ", "H", "T", "T", "P", " ", "e", "r", "r", "o", "r", "!", " ", "s", "t", "a", "t", "u", "s", ":", " ", "5", "0", "0">>)

C23_FailedDeleteKeepsState ==
    [][(isDeleting /\ ~isDeleting' /\ deleteCode' \notin 200..299) =>
           /\ deleteOutcome' = "Alerted"
           /\ currentDocument' = currentDocument
           /\ QueryMounted' = QueryMounted
           /\ <<uploaderVars, closureVars, pc, sessions, historyVars, queryVars>>' =
                  <<uploaderVars, closureVars, pc, sessions, historyVars, queryVars>>]_vars
C23_Witness ==
    /\ deleteOutcome = "Alerted" /\ deleteCode = 404 /\ ~isDeleting
    /\ currentDocument # Null /\ outcome = "Completed" /\ QueryMounted

\* C24: after a terminal state, a new session or a successful deletion starts
\* from a fresh state: the idle uploader and the session that has just been
\* started carry no error message, no progress beyond what the start itself
\* sets, no attempts, and an attempt budget that none of the ended session's
\* attempts has used up.
C24_FreshAfterTerminal ==
    /\ pc = "idle" =>
           (error = Null /\ progressPercent = 0 /\ retryCount = 0 /\ ~isUploading
                /\ ~BudgetExhausted)
    /\ pc = "uploading" =>
           (error = Null /\ progressPercent \in {0, 10} /\ retryCount = 0 /\ ~BudgetExhausted)

\* C28 as stated: once the upload has succeeded, the progress is 0 until a
\* status report carries a percentage.
C28_PollingStartsAtZero ==
    (pc \in {"checking", "scheduled"} /\ ~sawPercent) => progressPercent = 0

\* C28, amended: the controller enters Polling with the progress 0.1 that was
\* set when the upload was issued, and the progress stays 0.1 until a status
\* report carries a percentage.
C28_PollingStartsAtTenth ==
    (pc \in {"uploading", "checking", "scheduled"} /\ ~sawPercent) => progressPercent = 10
C28_Witness ==
    pc = "scheduled" /\ polled /\ ~sawPercent /\ progressPercent = 10 /\ uploadCode = 200

\* C25: every request of every transport operation carries the X-API-Key
\* header with the most recently configured credential, and no such header
\* while none (or the empty text) is configured. A step hands a request to
\* fetch() when it changes the request handed last or adds a pending call.
C25_ApiKeyHeader ==
    [][(request' # request \/ healthInFlight' > healthInFlight) =>
           /\ request'.operation # "none"
           /\ request'.headers.XApiKey =
                  IF config.apiKey \notin {Null, Some(EMPTY)} THEN config.apiKey ELSE Null]_vars
C25_Witness ==
    /\ request.operation = "uploadDocument"
    /\ request.headers.XApiKey = Some(<<"k", "e", "y", "-", "2">>)
    /\ config.apiKey = Some(<<"k", "e", "y", "-", "2">>)

\* C26: a submission whose question is empty or only white space, or longer
\* than 500 characters, is rejected by validation with an error message and
\* without a call of ask; a question that is asked is neither.
C26_InvalidQuestionNotAsked ==
    (unit.fn = "handleSubmit" /\ unit.done) =>
        /\ unit.arg \in BlankQuestions => unit.result = [error |-> EMPTY_QUESTION, asked |-> FALSE]
        /\ unit.arg \in LongQuestions => unit.result = [error |-> TOO_LONG, asked |-> FALSE]
        /\ ~unit.result.asked => unit.result.error # EMPTY
        /\ unit.result.asked =>
               (unit.arg \notin BlankQuestions /\ Len(unit.arg) <= 500)
C26_Witness ==
    /\ unit.fn = "handleSubmit" /\ unit.done
    /\ Len(unit.arg) = 501
    /\ unit.result = [error |-> TOO_LONG, asked |-> FALSE]

\* C27: the progress fraction is within [0, 1] in every reachable state,
\* whatever percentages the status texts report.
C27_ProgressWithinUnit == progressPercent >= 0 /\ progressPercent <= 100

\* C29: a status report that is neither completed nor an error and whose text
\* does not match the progress pattern, handled by a session that has made
\* fewer than 30 attempts, leaves the progress fraction unchanged, consumes one
\* attempt and schedules the next check.
C29_PatternlessReportKeepsProgress ==
    [][(pc = "checking" /\ pc' # "checking" /\ lastResult' = "report"
            /\ lastStatus' = Some(<<"p", "r", "o", "c", "e", "s", "s", "i", "n", "g">>) /\ SessionAttempts < MAX_RETRIES) =>
           /\ progressPercent' = progressPercent
           /\ retryCount' = retryCount + 1
           /\ pc' = "scheduled"]_vars

\* C30: a session that ended in a failure carries a non-empty message and is
\* not marked as uploading, and no error message is set while the session is
\* uploading or polling.
C30_FailureCarriesMessage ==
    /\ outcome \in {"Invalid", "UploadFailed", "Failed", "ProcessingFailed", "TimedOut"} =>
           (pc = "done" /\ ~isUploading /\ error # Null /\ Val(error) # EMPTY)
    /\ SessionLive => error = Null

\* C31: a 401 response to a health request always marks the credential as
\* required, and the credential field is shown, whether or not the body of the
\* response carries an error or a detail field.
C31_UnauthorizedRequiresCredential ==
    healthCode = 401 => (requiresAuth /\ ApiKeyInputShown)

\* C32: within one session at most one status check is outstanding at any
\* time: no check is in flight together with another check or with a pending
\* timer, and at most one timer is pending, so the checks of a session are
\* strictly sequential.
C32_ChecksSequential ==
    /\ checksInFlight + timersPending <= 1
    /\ checksInFlight = 1 <=> pc = "checking"
    /\ timersPending = 1 <=> pc = "scheduled"
\* the third check of a session is in flight, the timers before it have fired
C32_Witness == checksInFlight = 1 /\ timersPending = 0 /\ checksIssued = 3 /\ retryCount = 2

\* C33: onDocumentProcessed is invoked at most once per session, only with a
\* status report whose status is "completed", and never after the session has
\* reached Failed or TimedOut: such a session has made no call and has no check
\* or timer outstanding that could make one.
C33_CallbackOncePerSession ==
    /\ callbacks <= 1
    /\ callbacks = 1 =>
          /\ outcome = "Completed"
          /\ lastStatus = Some(COMPLETED)
          /\ currentDocument # Null
          /\ Val(currentDocument).status = Some(COMPLETED)
    /\ outcome \in {"Failed", "TimedOut"} =>
          /\ callbacks = 0
          /\ pc = "done"
          /\ checksInFlight = 0
          /\ timersPending = 0
\* the second session of a widget completes after two processing reports
C33_Witness == sessions = 2 /\ callbacks = 1 /\ retryCount = 2 /\ outcome = "Completed"

\* C34: the attempts counter never exceeds MAX_RETRIES (30) in any reachable
\* state, so the displayed time remaining, (30 - attempts) * 2 seconds, is
\* never negative.
C34_AttemptsWithinBudget ==
    /\ retryCount <= MAX_RETRIES
    /\ TimeRemainingShown => (TimeRemaining = (MAX_RETRIES - retryCount) * 2 /\ TimeRemaining >= 0)
====
